---------------------------- MODULE Spec2Model ----------------------------
(***************************************************************************)
(* Model of the badge 3D renderer.  The repository holds two Renderer      *)
(* classes: src/app/__init__.py (five render modes, native tidal3d maths,  *)
(* depth sort, shading; impl = "app") and src/__init__.py (four render     *)
(* modes, pure Python maths, no depth sort; impl = "root").  Both are      *)
(* modelled; impl is chosen in Init and never changes.                     *)
(*                                                                         *)
(* Spec      : the application life cycle, the input callbacks and the     *)
(*             frame loop, one step per statement group of loop().         *)
(* SceneSpec : one render_scene pass over a world-space scene.             *)
(***************************************************************************)
EXTENDS Integers, Sequences, FiniteSets, TLC

(***************************************************************************)
(* Bounds of the model.                                                    *)
(***************************************************************************)
\* frame-timer handles handed out by App.after in one run
MaxTimers == 3
\* milliseconds the clock may have advanced between two reads of it
Deltas == {0, 500}

(***************************************************************************)
(* Program constants.                                                      *)
(***************************************************************************)
MODE_POINT_CLOUD == 0
MODE_WIREFRAME_FULL == 1
MODE_WIREFRAME_BACK_FACE_CULLING == 2
MODE_SOLID == 3
MODE_SOLID_SHADED == 4

\* angular speed set by the joystick callbacks
SPEED_APP == 45
SPEED_ROOT == 3

Impls == {"app", "root"}
JoyPins == {"JOY_UP", "JOY_DOWN", "JOY_LEFT", "JOY_RIGHT"}
\* value of Timer handle attribute before the first loop() has set it
NoTimer == 0

VARIABLES
    impl,           \* which Renderer class runs
    active,         \* App base class: between on_activate and on_deactivate
    pc,             \* position inside loop(), "idle" when no handler runs
    calls,          \* calls made by the current / last loop() iteration, in order
    pending,        \* scheduler: handles of callbacks scheduled and not yet run
    timer,          \* self.timer
    next_handle,    \* scheduler: next fresh handle
    state,          \* self.buttons._callbacks[pin].state, 0 = pressed (active low)
    render_mode,    \* self.render_mode
    render_object,  \* self.render_object (app only)
    angular,        \* self.mesh.angular
    orientation,    \* self.mesh.orientation (app: in 1/1000 degree)
    delta_t,        \* loop() local delta_t (app only), ms: time.ticks_diff of
                    \* the clock read by this loop() and the clock read by
                    \* the previous one; only the difference is kept
    accum_t,        \* self.accum_t
    frame_counter,  \* self.frame_counter
    fps,            \* self.fps
    \* one render_scene pass (SceneSpec)
    world,          \* the mesh in world space: verts, norms, faces, colours
    scene_pc,       \* position inside render_scene
    faces,          \* the face list built by the first loop of render_scene
    projected_verts,\* the projected-vertex cache
    projections,    \* vertex indices in the order they were projected
    draws,          \* draw calls made on the framebuffer, in order
    prev_verts      \* history: the cache the pass before this one left behind
                    \* (PassSpec); the code holds no reference to it

app_vars == <<impl, active, pc, calls, pending, timer, next_handle, state,
              render_mode, render_object, angular, orientation,
              delta_t, accum_t, frame_counter, fps>>

scene_vars == <<world, scene_pc, faces, projected_verts, projections, draws,
                prev_verts>>

vars == <<app_vars, scene_vars>>

(***************************************************************************)
(* Vector maths (tidal3d in src/app, math3d.Vec in src).  Arithmetic is    *)
(* exact: coordinates are integers, and values the code divides are kept   *)
(* as numerator and positive denominator.                                  *)
(***************************************************************************)
v_add(a, b) == <<a[1] + b[1], a[2] + b[2], a[3] + b[3]>>
v_subtract(a, b) == <<a[1] - b[1], a[2] - b[2], a[3] - b[3]>>
v_scale(a, k) == <<a[1] * k, a[2] * k, a[3] * k>>
v_dot(a, b) == a[1] * b[1] + a[2] * b[2] + a[3] * b[3]
v_cross(a, b) == <<a[2] * b[3] - a[3] * b[2],
                   a[3] * b[1] - a[1] * b[3],
                   a[1] * b[2] - a[2] * b[1]>>

\* int(n / m) for m > 0: Python's int() drops the fraction, towards zero
Trunc(n, m) == IF n >= 0 THEN n \div m ELSE -((-n) \div m)

\* the display behind BufferedDisplay
FB_WIDTH == 135
FB_HEIGHT == 240
\* tidal.WHITE
WHITE == 65535

\* color565(r, g, b): 5, 6 and 5 bits
color565(r, g, b) == (r \div 8) * 2048 + (g \div 4) * 32 + (b \div 8)

\* the camera of src/app level with the origin, as it is in src
CamPosLevel(i) == <<0, 0, 35>>

\* self.v_campos (src/app), Vec([0, 0, 35]) in render_scene (src)
CamPos(i) == IF i = "app" THEN <<0, 10, 35>> ELSE <<0, 0, 35>>
\* the translation self.m_view applies
ViewT(i) == IF i = "app" THEN <<0, -10, -35>> ELSE <<0, 0, -35>>

(***************************************************************************)
(* Scenes: the world-space arrays render_scene works on after the model    *)
(* transform.                                                              *)
(***************************************************************************)
\* largest half edge of the cube mesh
MaxCubeHalf == 12

Face(ix, n, c) == [indices |-> ix, norm_index |-> n, col_index |-> c]

\* a cube centred at the origin, not rotated: 8 vertices, 6 sides of two
\* triangles wound counter-clockwise seen from outside, one normal per side:
\* 1 front (+z), 2 back (-z), 3 right (+x), 4 left (-x), 5 top (+y),
\* 6 bottom (-y)
CubeWorld(h) ==
    [cube |-> h,
     verts |-> << <<-h, -h, -h>>, <<-h, -h, h>>, <<-h, h, -h>>, <<-h, h, h>>,
                  <<h, -h, -h>>, <<h, -h, h>>, <<h, h, -h>>, <<h, h, h>> >>,
     norms |-> << <<0, 0, 1>>, <<0, 0, -1>>, <<1, 0, 0>>, <<-1, 0, 0>>,
                  <<0, 1, 0>>, <<0, -1, 0>> >>,
     faces |-> << Face(<<2, 6, 8>>, 1, 1), Face(<<2, 8, 4>>, 1, 1),
                  Face(<<1, 3, 7>>, 2, 2), Face(<<1, 7, 5>>, 2, 2),
                  Face(<<5, 7, 8>>, 3, 3), Face(<<5, 8, 6>>, 3, 3),
                  Face(<<1, 2, 4>>, 4, 4), Face(<<1, 4, 3>>, 4, 4),
                  Face(<<3, 4, 8>>, 5, 5), Face(<<3, 8, 7>>, 5, 5),
                  Face(<<1, 5, 6>>, 6, 6), Face(<<1, 6, 2>>, 6, 6) >>,
     colours |-> << <<255, 0, 0>>, <<0, 255, 0>>, <<0, 0, 255>>,
                    <<255, 255, 0>>, <<0, 255, 255>>, <<255, 12, 255>> >>]

\* positions relative to the camera a vertex of a test scene may take: in
\* normalised device coordinates (0,0), (0,1), (-1,0), (2,2), and (0,0)
\* farther away and nearer
CamPoints == { <<0, 0, -16>>, <<0, 16, -16>>, <<-9, 0, -16>>,
               <<18, 32, -16>>, <<0, 0, -32>>, <<0, 0, -8>> }
\* normals a test scene may give its faces (src/app reads them from the mesh)
TestNormals == { <<0, 0, 1>>, <<0, 0, -1>>, <<0, -1, 0>> }

\* three triangles over four vertices: vertex 1 is used by faces 1 and 3,
\* vertex 2 by all three, vertex 3 by faces 1 and 2, vertex 4 by faces 2 and 3
TestWorld(i, p1, p2, p3, p4, n1, n2) ==
    [cube |-> 0,
     verts |-> << v_subtract(p1, ViewT(i)), v_subtract(p2, ViewT(i)),
                  v_subtract(p3, ViewT(i)), v_subtract(p4, ViewT(i)) >>,
     norms |-> <<n1, n2>>,
     faces |-> << Face(<<1, 2, 3>>, 1, 1), Face(<<2, 3, 4>>, 2, 2),
                  Face(<<1, 2, 4>>, 2, 1) >>,
     colours |-> << <<255, 12, 0>>, <<0, 128, 255>> >>]

Worlds(i) ==
    {CubeWorld(h) : h \in 1..MaxCubeHalf}
    \cup {TestWorld(i, p[1], p[2], p[3], p[4], n[1], n[2]) :
            p \in CamPoints \X CamPoints \X CamPoints \X CamPoints,
            n \in (IF i = "app" THEN TestNormals \X TestNormals
                                ELSE {<<<<0, 0, 1>>, <<0, 0, 1>>>>})}

\* no scene: the state of the pass variables outside SceneSpec
NoWorld == [cube |-> 0, verts |-> <<>>, norms |-> <<>>, faces |-> <<>>,
            colours |-> <<>>]

\* largest offset, left, right, up or down of the camera's axis, of the
\* vertex a grid scene moves about
MaxGrid == 9
\* distances in front of the camera of that vertex: at 7 the offsets 7 up
\* and down are the bounds -1 and 1 of y, at 16 the offsets 9 left and right
\* are the bounds of x
NdcDepths == {7, 16}

\* one triangle facing the camera: vertex 1 at (x, y) on the plane z away
\* from the camera, vertices 2 and 3 behind that plane and in view, on a line
\* that meets the plane at no point vertex 1 can take
GridWorld(i, x, y, z) ==
    [cube |-> 0,
     verts |-> << v_subtract(<<x, y, -z>>, ViewT(i)),
                  v_subtract(<<0, 0, -z - 1>>, ViewT(i)),
                  v_subtract(<<1, 0, -z - 3>>, ViewT(i)) >>,
     norms |-> << <<0, 0, 1>> >>,
     faces |-> << Face(<<1, 2, 3>>, 1, 1) >>,
     colours |-> << <<255, 12, 0>> >>]

\* the scenes of successive passes: two cubes, and test scenes that differ in
\* where their first and last vertex lie and, in src/app, in their normals
PassCubes == {2, 11}
PassWorlds(i) ==
    {CubeWorld(h) : h \in PassCubes}
    \cup {TestWorld(i, p1, <<0, 16, -16>>, <<-9, 0, -16>>, p4, n[1], n[2]) :
            p1 \in {<<0, 0, -16>>, <<0, 0, -32>>},
            p4 \in {<<18, 32, -16>>, <<0, 0, -8>>},
            n \in (IF i = "app" THEN TestNormals \X TestNormals
                                ELSE {<<<<0, 0, 1>>, <<0, 0, 1>>>>})}

GridWorlds(i) ==
    {GridWorld(i, x, y, z) :
        x \in -MaxGrid..MaxGrid, y \in -MaxGrid..MaxGrid, z \in NdcDepths}

(***************************************************************************)
(* Renderer.__init__                                                       *)
(***************************************************************************)
\* a freshly loaded Mesh: at rest, not rotated
NewMesh_angular == <<0, 0, 0>>
NewMesh_orientation == <<0, 0, 0>>

InitialMode(i) == IF i = "app" THEN MODE_SOLID_SHADED ELSE MODE_POINT_CLOUD

\* everything __init__ sets apart from the render mode
InitRest ==
    /\ active = FALSE
    /\ pc = "idle"
    /\ calls = <<>>
    /\ pending = {}
    /\ timer = NoTimer
    /\ next_handle = 1
    /\ state = [p \in JoyPins |-> 1]
    /\ render_object = "cube.obj"
    /\ angular = NewMesh_angular
    /\ orientation = NewMesh_orientation
    /\ delta_t = 0
    /\ accum_t = 0
    /\ frame_counter = 0
    /\ fps = 0

Init ==
    /\ impl \in Impls
    /\ render_mode = InitialMode(impl)
    /\ InitRest
    /\ world = NoWorld
    /\ scene_pc = "none"
    /\ faces = <<>>
    /\ projected_verts = <<>>
    /\ projections = <<>>
    /\ draws = <<>>
    /\ prev_verts = <<>>

(***************************************************************************)
(* The host: App base class, scheduler, buttons.                           *)
(***************************************************************************)
\* the scheduler activates an app only when it is not the current one, and
\* deactivates only the current one
HostMayActivate == ~active /\ pc = "idle"
HostMayDeactivate == active /\ pc = "idle"
\* button callbacks are delivered to the active app, between two handlers
HostMayDeliver == active /\ pc = "idle"

\* App.after(ms, callback): a fresh cancellable handle, now pending
after(h) == pending \cup {h}
\* Timer.cancel(): the handle is no longer pending
cancel(h) == pending \ {h}

\* Renderer._get_button_state(pin)
get_button_state(pin) == ~(state[pin] = 1)

(***************************************************************************)
(* loop(): entered from on_activate and from the frame timer.              *)
(***************************************************************************)
\* src/app lines 131-133: last_t is the stored the clock is read
\* again and has advanced by d since; src: start_t is a local, only printed
loop_enter ==
    /\ next_handle <= MaxTimers
    /\ pc' = "update"
    /\ calls' = <<>>
    /\ IF impl = "app"
       THEN \E d \in Deltas : delta_t' = d
       ELSE UNCHANGED delta_t

on_activate ==
    /\ HostMayActivate
    /\ active' = TRUE
    \* buttons.on_press(...) registers a new Button per pin, released
    /\ state' = [p \in JoyPins |-> 1]
    \* src/app: self.start_t = time.ticks_ms(), then self.loop()
    /\ loop_enter
    /\ UNCHANGED <<impl, pending, timer, next_handle, render_mode,
                   render_object, angular, orientation, accum_t,
                   frame_counter, fps>>
    /\ UNCHANGED scene_vars

\* on_deactivate that forgets self.timer.cancel()
on_deactivate_no_cancel ==
    /\ HostMayDeactivate
    /\ active' = FALSE
    /\ UNCHANGED <<impl, pc, calls, pending, timer, next_handle, state,
                   render_mode, render_object, angular, orientation, delta_t,
                   accum_t, frame_counter, fps>>
    /\ UNCHANGED scene_vars

on_deactivate ==
    /\ HostMayDeactivate
    /\ pending' = cancel(timer)
    /\ active' = FALSE
    /\ UNCHANGED <<impl, pc, calls, timer, next_handle, state, render_mode,
                   render_object, angular, orientation, delta_t,
                   accum_t, frame_counter, fps>>
    /\ UNCHANGED scene_vars

\* the scheduler runs a due callback: the handle is spent, loop() starts
timer_fires ==
    /\ pc = "idle"
    /\ \E h \in pending :
        /\ pending' = pending \ {h}
        /\ loop_enter
    /\ UNCHANGED <<impl, active, timer, next_handle, state, render_mode,
                   render_object, angular, orientation, accum_t,
                   frame_counter, fps>>
    /\ UNCHANGED scene_vars

(***************************************************************************)
(* Input callbacks.                                                        *)
(***************************************************************************)
\* the wrap test off by one: solid shaded is never selected
select_mode_app_early_wrap(m) == IF m + 1 >= MODE_SOLID_SHADED THEN 0 ELSE m + 1

\* src/app lines 101-103
select_mode_app(m) == IF m + 1 > MODE_SOLID_SHADED THEN 0 ELSE m + 1

\* src lines 55-62
select_mode_root(m) ==
    IF m = MODE_POINT_CLOUD THEN MODE_WIREFRAME_FULL
    ELSE IF m = MODE_WIREFRAME_FULL THEN MODE_WIREFRAME_BACK_FACE_CULLING
    ELSE IF m = MODE_WIREFRAME_BACK_FACE_CULLING THEN MODE_SOLID
    ELSE IF m = MODE_SOLID THEN MODE_POINT_CLOUD
    ELSE m

select_mode ==
    /\ HostMayDeliver
    /\ render_mode' = IF impl = "app" THEN select_mode_app(render_mode)
                                      ELSE select_mode_root(render_mode)
    /\ UNCHANGED <<impl, active, pc, calls, pending, timer, next_handle,
                   state, render_object, angular, orientation, delta_t, accum_t, frame_counter, fps>>
    /\ UNCHANGED scene_vars

\* src/app lines 107-110
next_object(o) ==
    IF o = "cube.obj" THEN "teapot.obj"
    ELSE IF o = "teapot.obj" THEN "cube.obj"
    ELSE o

\* src/app only: BUTTON_B is not registered by src
select_object ==
    /\ HostMayDeliver
    /\ impl = "app"
    /\ render_object' = next_object(render_object)
    \* self.mesh = Mesh(self.render_object)
    /\ angular' = NewMesh_angular
    /\ orientation' = NewMesh_orientation
    /\ UNCHANGED <<impl, active, pc, calls, pending, timer, next_handle,
                   state, render_mode, delta_t, accum_t,
                   frame_counter, fps>>
    /\ UNCHANGED scene_vars

Speed == IF impl = "app" THEN SPEED_APP ELSE SPEED_ROOT

\* the press callbacks: button_left, button_right, button_up, button_down
button_left(a) == [a EXCEPT ![2] = Speed]
button_right(a) == [a EXCEPT ![2] = -Speed]
button_up(a) == [a EXCEPT ![1] = Speed]
button_down(a) == [a EXCEPT ![1] = -Speed]

press_callback(pin, a) ==
    CASE pin = "JOY_LEFT" -> button_left(a)
      [] pin = "JOY_RIGHT" -> button_right(a)
      [] pin = "JOY_UP" -> button_up(a)
      [] pin = "JOY_DOWN" -> button_down(a)

\* a joystick direction goes down: the Button records it and, registered
\* without autorepeat, calls the press callback once
joy_press ==
    /\ HostMayDeliver
    /\ \E pin \in JoyPins :
        /\ state[pin] = 1
        /\ state' = [state EXCEPT ![pin] = 0]
        /\ angular' = press_callback(pin, angular)
    /\ UNCHANGED <<impl, active, pc, calls, pending, timer, next_handle,
                   render_mode, render_object, orientation, delta_t, accum_t, frame_counter, fps>>
    /\ UNCHANGED scene_vars

\* a joystick direction is let go: the Button records it, no callback
joy_release ==
    /\ HostMayDeliver
    /\ \E pin \in JoyPins :
        /\ state[pin] = 0
        /\ state' = [state EXCEPT ![pin] = 1]
    /\ UNCHANGED <<impl, active, pc, calls, pending, timer, next_handle,
                   render_mode, render_object, angular, orientation,
                   delta_t, accum_t, frame_counter, fps>>
    /\ UNCHANGED scene_vars

(***************************************************************************)
(* The body of loop().                                                     *)
(***************************************************************************)
\* the two axes' button pairs swapped
kill_velocity_swapped(a) ==
    LET a1 == IF ~get_button_state("JOY_UP") /\ ~get_button_state("JOY_DOWN")
              THEN [a EXCEPT ![2] = 0] ELSE a
    IN  IF ~get_button_state("JOY_LEFT") /\ ~get_button_state("JOY_RIGHT")
        THEN [a1 EXCEPT ![1] = 0] ELSE a1

\* update(): "Kill velocity if buttons no longer pressed"
kill_velocity(a) ==
    LET a1 == IF ~get_button_state("JOY_LEFT") /\ ~get_button_state("JOY_RIGHT")
              THEN [a EXCEPT ![2] = 0] ELSE a
    IN  IF ~get_button_state("JOY_UP") /\ ~get_button_state("JOY_DOWN")
        THEN [a1 EXCEPT ![1] = 0] ELSE a1

\* Mesh.update: orientation[i] += angular[i] * delta_t.  src/app passes
\* delta_t / 1000 seconds, kept here as milliseconds so orientation is in
\* 1/1000 degree; src calls update() with no step: one unit per frame
mesh_update(o, a, dt) == [i \in 1..3 |-> o[i] + a[i] * dt]

update ==
    /\ pc = "update"
    /\ angular' = kill_velocity(angular)
    /\ orientation' = mesh_update(orientation, angular',
                                  IF impl = "app" THEN delta_t ELSE 1)
    /\ calls' = Append(calls, "update")
    /\ pc' = "render_background"
    /\ UNCHANGED <<impl, active, pending, timer, next_handle, state,
                   render_mode, render_object, delta_t, accum_t,
                   frame_counter, fps>>
    /\ UNCHANGED scene_vars

render_background ==
    /\ pc = "render_background"
    /\ calls' = Append(calls, "render_background")
    /\ pc' = "render_scene"
    /\ UNCHANGED <<impl, active, pending, timer, next_handle, state,
                   render_mode, render_object, angular, orientation,
                   delta_t, accum_t, frame_counter, fps>>
    /\ UNCHANGED scene_vars

render_scene_call ==
    /\ pc = "render_scene"
    /\ calls' = Append(calls, "render_scene")
    /\ pc' = IF impl = "app" THEN "render_foreground" ELSE "blit"
    /\ UNCHANGED <<impl, active, pending, timer, next_handle, state,
                   render_mode, render_object, angular, orientation,
                   delta_t, accum_t, frame_counter, fps>>
    /\ UNCHANGED scene_vars

\* src/app only
render_foreground ==
    /\ pc = "render_foreground"
    /\ calls' = Append(calls, "render_foreground")
    /\ pc' = "blit"
    /\ UNCHANGED <<impl, active, pending, timer, next_handle, state,
                   render_mode, render_object, angular, orientation,
                   delta_t, accum_t, frame_counter, fps>>
    /\ UNCHANGED scene_vars

\* src/app lines 145-150: frames per second
count_frame ==
    LET fc == frame_counter + 1
        acc == accum_t + delta_t
    IN  IF acc > 1000
        THEN /\ accum_t' = acc - 1000
             /\ fps' = fc
             /\ frame_counter' = 0
        ELSE /\ accum_t' = acc
             /\ frame_counter' = fc
             /\ fps' = fps

blit ==
    /\ pc = "blit"
    /\ calls' = Append(calls, "blit")
    /\ IF impl = "app" THEN count_frame
                       ELSE UNCHANGED <<accum_t, frame_counter, fps>>
    /\ pc' = "after"
    /\ UNCHANGED <<impl, active, pending, timer, next_handle, state,
                   render_mode, render_object, angular, orientation,
                   delta_t>>
    /\ UNCHANGED scene_vars

\* the next frame queued although the frame was never presented: the
\* scheduling step taken in place of blit
schedule_next_early ==
    /\ pc = "blit"
    /\ pending' = after(next_handle)
    /\ timer' = next_handle
    /\ next_handle' = next_handle + 1
    /\ calls' = Append(calls, "after")
    /\ pc' = "idle"
    /\ UNCHANGED <<impl, active, state, render_mode, render_object, angular,
                   orientation, delta_t, accum_t, frame_counter, fps>>
    /\ UNCHANGED scene_vars

\* self.timer = self.after(1, self.loop)
schedule_next ==
    /\ pc = "after"
    /\ pending' = after(next_handle)
    /\ timer' = next_handle
    /\ next_handle' = next_handle + 1
    /\ calls' = Append(calls, "after")
    /\ pc' = "idle"
    /\ UNCHANGED <<impl, active, state, render_mode, render_object, angular,
                   orientation, delta_t, accum_t, frame_counter, fps>>
    /\ UNCHANGED scene_vars

Next ==
    \/ on_activate
    \/ on_deactivate
    \/ timer_fires
    \/ select_mode
    \/ select_object
    \/ joy_press
    \/ joy_release
    \/ update
    \/ render_background
    \/ render_scene_call
    \/ render_foreground
    \/ blit
    \/ schedule_next

Spec == Init /\ [][Next]_vars


(***************************************************************************)
(* render_scene.                                                           *)
(***************************************************************************)
\* 3 * centre: the sum of the face's three world vertices (the code divides
\* by 3; the factor changes no sign and no order)
Centre3(w, f) ==
    v_add(v_add(w.verts[f.indices[1]], w.verts[f.indices[2]]),
          w.verts[f.indices[3]])

\* the face's world normal: src/app reads the mesh normal, src takes the
\* cross product (a - b) x (b - c) of the face's vertices
FaceNormal(i, w, f) ==
    IF i = "app" THEN w.norms[f.norm_index]
    ELSE v_cross(v_subtract(w.verts[f.indices[1]], w.verts[f.indices[2]]),
                 v_subtract(w.verts[f.indices[2]], w.verts[f.indices[3]]))

\* dot of the normal and the direction from the face centre to the camera,
\* times a positive factor (3 and the two lengths normalise divides by): its
\* sign is the sign of the code's dot
FaceDot(i, w, f) ==
    v_dot(FaceNormal(i, w, f), v_subtract(v_scale(CamPos(i), 3), Centre3(w, f)))

\* the mode asks for back faces to be left out: >= with <= swapped in
CullTestInverted(i, mode, w, f) ==
    FaceDot(i, w, f) < 0 /\ mode <= MODE_WIREFRAME_BACK_FACE_CULLING

\* if (dot < 0 and self.render_mode >= MODE_WIREFRAME_BACK_FACE_CULLING)
CullTest(i, mode, w, f) ==
    FaceDot(i, w, f) < 0 /\ mode >= MODE_WIREFRAME_BACK_FACE_CULLING

\* 3 * depth: z of the face centre in camera space (src/app line 229)
FaceDepth3(i, w, f) == Centre3(w, f)[3] + 3 * ViewT(i)[3]

\* an entry of the cache that was never written (None, or no key)
Unset == [set |-> FALSE, xn |-> 0, yn |-> 0, d |-> 1]

\* vertex -> camera space -> normalised device coordinates: x is
\* x_cam * (height / width) / w and y is y_cam / w with w = -z_cam (field of
\* view 90 degrees, so the scale tan(45 degrees) is 1); kept as xn / d, yn / d
\* with d > 0
Project(i, v) ==
    LET c == v_add(v, ViewT(i))
        d0 == (-c[3]) * FB_WIDTH
        sg == IF d0 < 0 THEN -1 ELSE 1
    IN  [set |-> TRUE, xn |-> sg * c[1] * FB_HEIGHT,
         yn |-> sg * c[2] * FB_WIDTH, d |-> sg * d0]

\* the loop over a face's indices: project what the cache does not hold
RECURSIVE ProjectIndices(_, _, _, _, _)
ProjectIndices(i, w, ix, k, acc) ==
    IF k > Len(ix) THEN acc
    ELSE IF acc.cache[ix[k]].set
         THEN ProjectIndices(i, w, ix, k + 1, acc)
         ELSE ProjectIndices(i, w, ix, k + 1,
                [cache |-> [acc.cache EXCEPT ![ix[k]] = Project(i, w.verts[ix[k]])],
                 log |-> Append(acc.log, ix[k])])

\* the entry of the face list for mesh face k; src keeps no depth
FaceEntry(i, w, k) ==
    [face |-> k,
     indices |-> w.faces[k].indices,
     norm_index |-> w.faces[k].norm_index,
     col_index |-> w.faces[k].col_index,
     depth3 |-> IF i = "app" THEN FaceDepth3(i, w, w.faces[k]) ELSE 0]

\* the first loop of render_scene, from mesh face k on
RECURSIVE BuildFaces(_, _, _, _, _)
BuildFaces(i, mode, w, k, acc) ==
    IF k > Len(w.faces) THEN acc
    ELSE IF CullTest(i, mode, w, w.faces[k])
         THEN BuildFaces(i, mode, w, k + 1, acc)
         ELSE LET pr == ProjectIndices(i, w, w.faces[k].indices, 1,
                           [cache |-> acc.cache, log |-> acc.log])
              IN  BuildFaces(i, mode, w, k + 1,
                    [faces |-> Append(acc.faces, FaceEntry(i, w, k)),
                     cache |-> pr.cache, log |-> pr.log])

\* where x goes in a list sorted by depth: behind every entry not deeper
\* than it (list.sort is stable)
RECURSIVE InsertByDepth(_, _)
InsertByDepth(sorted, x) ==
    IF sorted = <<>> THEN <<x>>
    ELSE IF Head(sorted).depth3 <= x.depth3
         THEN <<Head(sorted)>> \o InsertByDepth(Tail(sorted), x)
         ELSE <<x>> \o sorted

\* faces.sort(key=lambda face : face[3])
RECURSIVE SortByDepth(_)
SortByDepth(fs) ==
    IF fs = <<>> THEN <<>>
    ELSE InsertByDepth(SortByDepth(SubSeq(fs, 1, Len(fs) - 1)), fs[Len(fs)])

\* the test with its bounds let in
InViewInclusive(v) ==
    v.xn >= -v.d /\ v.xn <= v.d /\ v.yn >= -v.d /\ v.yn <= v.d

\* face_vert[0] > -1 and face_vert[0] < 1 and face_vert[1] > -1 and
\* face_vert[1] < 1
InView(v) == v.xn > -v.d /\ v.xn < v.d /\ v.yn > -v.d /\ v.yn < v.d

\* visible: one of the face's projected vertices passes the test
Visible(cache, ix) == \E k \in 1..Len(ix) : InView(cache[ix[k]])

\* the conversion without the vertical flip: y = (v[1] + 1) * 0.5 * height
ndc_to_screen_no_flip(v) ==
    <<Trunc((v.xn + v.d) * FB_WIDTH, 2 * v.d),
      Trunc((v.yn + v.d) * FB_HEIGHT, 2 * v.d)>>

\* x = (v[0] + 1) * 0.5 * width, y = (1 - (v[1] + 1) * 0.5) * height, as
\* integers
ndc_to_screen(v) ==
    <<Trunc((v.xn + v.d) * FB_WIDTH, 2 * v.d),
      Trunc((v.d - v.yn) * FB_HEIGHT, 2 * v.d)>>

\* int(c * s / sqrt(3)) for a channel c and s = -sqrt(3) * dot(normal, light):
\* the light is normalise([-1, -1, -1])
ScaleByLight(c, s) ==
    LET n == c * s
        k == CHOOSE j \in 0..(3 * 255) :
                3 * j * j <= n * n /\ 3 * (j + 1) * (j + 1) > n * n
    IN  IF n >= 0 THEN k ELSE -k

Max(a, b) == IF a >= b THEN a ELSE b

\* src/app lines 271-273
ShadedColour(rgb, normal) ==
    LET s == normal[1] + normal[2] + normal[3]
    IN  color565(Max(ScaleByLight(rgb[1], s), 8),
                 Max(ScaleByLight(rgb[2], s), 8),
                 Max(ScaleByLight(rgb[3], s), 8))

\* the palette entry of a face: an RGB triple in src/app; src hands the
\* entry to the framebuffer as it is, so there it is a packed colour
FlatColour(w, e) ==
    LET rgb == w.colours[e.col_index] IN color565(rgb[1], rgb[2], rgb[3])

\* the colour test with the point cloud let into the flat branch
FaceColourFlatPoints(i, mode, w, e) ==
    IF i = "app"
    THEN IF mode >= MODE_POINT_CLOUD /\ mode < MODE_SOLID_SHADED
         THEN FlatColour(w, e)
         ELSE IF mode >= MODE_SOLID_SHADED
              THEN ShadedColour(w.colours[e.col_index], w.norms[e.norm_index])
              ELSE WHITE
    ELSE FlatColour(w, e)

\* the colour of a draw call: src/app lines 262-273, src lines 194-198
FaceColour(i, mode, w, e) ==
    IF i = "app"
    THEN IF mode > MODE_POINT_CLOUD /\ mode < MODE_SOLID_SHADED
         THEN FlatColour(w, e)
         ELSE IF mode >= MODE_SOLID_SHADED
              THEN ShadedColour(w.colours[e.col_index], w.norms[e.norm_index])
              ELSE WHITE
    ELSE IF mode = MODE_POINT_CLOUD THEN WHITE ELSE FlatColour(w, e)

\* the framebuffer call of a draw: src/app lines 276-281, src lines 193-198
Primitive(mode) ==
    IF mode = MODE_POINT_CLOUD THEN "points"
    ELSE IF mode = MODE_WIREFRAME_FULL
            \/ mode = MODE_WIREFRAME_BACK_FACE_CULLING THEN "polygon"
    ELSE IF mode >= MODE_SOLID THEN "filled polygon"
    ELSE "none"

DrawCall(i, mode, w, cache, e) ==
    [face |-> e.face,
     prim |-> Primitive(mode),
     colour |-> FaceColour(i, mode, w, e),
     coords |-> [k \in 1..Len(e.indices) |-> ndc_to_screen(cache[e.indices[k]])]]

\* the second loop of render_scene, from entry k of the face list on
RECURSIVE DrawFaces(_, _, _, _, _, _, _)
DrawFaces(i, mode, w, cache, fs, k, acc) ==
    IF k > Len(fs) THEN acc
    ELSE IF ~Visible(cache, fs[k].indices) \/ Primitive(mode) = "none"
         THEN DrawFaces(i, mode, w, cache, fs, k + 1, acc)
         ELSE DrawFaces(i, mode, w, cache, fs, k + 1,
                        Append(acc, DrawCall(i, mode, w, cache, fs[k])))

\* the modes select_mode can reach
LastMode(i) == IF i = "app" THEN MODE_SOLID_SHADED ELSE MODE_SOLID

SceneInit ==
    /\ impl \in Impls
    /\ render_mode \in MODE_POINT_CLOUD..LastMode(impl)
    /\ InitRest
    /\ world \in Worlds(impl)
    /\ scene_pc = "build"
    /\ faces = <<>>
    /\ projected_verts = [k \in 1..Len(world.verts) |-> Unset]
    /\ projections = <<>>
    /\ draws = <<>>
    /\ prev_verts = <<>>

\* the first loop started on the list the pass before left behind, as it
\* would be were the list kept on the object
build_faces_keep_cache ==
    /\ scene_pc = "build"
    /\ LET r == BuildFaces(impl, render_mode, world, 1,
                  [faces |-> <<>>,
                   cache |-> [k \in 1..Len(world.verts) |->
                                IF k <= Len(projected_verts)
                                THEN projected_verts[k] ELSE Unset],
                   log |-> <<>>])
       IN  /\ faces' = r.faces
           /\ projected_verts' = r.cache
           /\ projections' = r.log
    /\ scene_pc' = IF impl = "app" THEN "sort" ELSE "draw"
    /\ UNCHANGED <<world, draws, prev_verts>>
    /\ UNCHANGED app_vars

\* src/app lines 188-230, src lines 121-172
build_faces ==
    /\ scene_pc = "build"
    /\ LET r == BuildFaces(impl, render_mode, world, 1,
                  [faces |-> <<>>,
                   cache |-> [k \in 1..Len(world.verts) |-> Unset],
                   log |-> <<>>])
       IN  /\ faces' = r.faces
           /\ projected_verts' = r.cache
           /\ projections' = r.log
    /\ scene_pc' = IF impl = "app" THEN "sort" ELSE "draw"
    /\ UNCHANGED <<world, draws, prev_verts>>
    /\ UNCHANGED app_vars

\* src/app line 234; src does not sort
sort_faces ==
    /\ scene_pc = "sort"
    /\ faces' = SortByDepth(faces)
    /\ scene_pc' = "draw"
    /\ UNCHANGED <<world, projected_verts, projections, draws, prev_verts>>
    /\ UNCHANGED app_vars

\* src/app lines 237-281, src lines 175-198
draw_faces ==
    /\ scene_pc = "draw"
    /\ draws' = DrawFaces(impl, render_mode, world, projected_verts, faces,
                          1, <<>>)
    /\ scene_pc' = "done"
    /\ UNCHANGED <<world, faces, projected_verts, projections, prev_verts>>
    /\ UNCHANGED app_vars

SceneNext == build_faces \/ sort_faces \/ draw_faces

SceneSpec == SceneInit /\ [][SceneNext]_vars

\* one render_scene pass over a grid scene
NdcInit ==
    /\ impl \in Impls
    /\ render_mode \in MODE_POINT_CLOUD..LastMode(impl)
    /\ InitRest
    /\ world \in GridWorlds(impl)
    /\ scene_pc = "build"
    /\ faces = <<>>
    /\ projected_verts = [k \in 1..Len(world.verts) |-> Unset]
    /\ projections = <<>>
    /\ draws = <<>>
    /\ prev_verts = <<>>

NdcSpec == NdcInit /\ [][SceneNext]_vars

\* the first of a run of passes
PassInit ==
    /\ impl \in Impls
    /\ render_mode \in MODE_POINT_CLOUD..LastMode(impl)
    /\ InitRest
    /\ world \in PassWorlds(impl)
    /\ scene_pc = "build"
    /\ faces = <<>>
    /\ projected_verts = [k \in 1..Len(world.verts) |-> Unset]
    /\ projections = <<>>
    /\ draws = <<>>
    /\ prev_verts = <<>>

\* render_scene returns and loop() calls it again in a later frame: by then
\* update may have moved the mesh, select_object replaced it and select_mode
\* changed the mode.  The locals of the pass that returned are gone; the
\* cache it built stays in the model, as the object the list was, until the
\* next pass makes its own
next_pass ==
    /\ scene_pc = "done"
    /\ scene_pc' = "build"
    /\ world' \in PassWorlds(impl)
    /\ render_mode' \in MODE_POINT_CLOUD..LastMode(impl)
    /\ prev_verts' = projected_verts
    /\ faces' = <<>>
    /\ projections' = <<>>
    /\ draws' = <<>>
    /\ UNCHANGED projected_verts
    /\ UNCHANGED <<impl, active, pc, calls, pending, timer, next_handle, state,
                   render_object, angular, orientation, delta_t, accum_t,
                   frame_counter, fps>>

PassNext == SceneNext \/ next_pass

PassSpec == PassInit /\ [][PassNext]_vars

(***************************************************************************)
(* Properties of the life cycle, the frame loop and the input callbacks.   *)
(***************************************************************************)
held(pin) == state[pin] = 0

\* C1: once on_deactivate has returned no frame runs and none can start
\* until the next on_activate: while the app is not active no loop() is in
\* progress and no frame callback is pending; and whenever the app is active
\* and between handlers, the one pending callback is the handle self.timer
\* holds, so that handle is the one on_deactivate cancels.
C1_NoFrameAfterDeactivate ==
    /\ ~active => (pc = "idle" /\ pending = {})
    /\ (active /\ pc = "idle") => pending = {timer}

\* reached: two frames have run (the second one from the timer) and the app
\* was then deactivated, leaving the handle of the last frame cancelled
C1_Witness ==
    /\ ~active
    /\ timer = 2
    /\ next_handle = 3
    /\ pending = {}

\* the calls of one loop() iteration, in order
FrameOrder(i) ==
    IF i = "app"
    THEN <<"update", "render_background", "render_scene",
           "render_foreground", "blit", "after">>
    ELSE <<"update", "render_background", "render_scene", "blit", "after">>

IsPrefix(s, t) == Len(s) <= Len(t) /\ \A k \in 1..Len(s) : s[k] = t[k]

\* C2: frames never overlap or queue up: at most one frame callback is
\* pending, none is pending while a loop() iteration runs, and a callback is
\* scheduled only as the last call of an iteration, after update, the render
\* calls and blit have been made in that order.
C2_NoOverlap ==
    /\ Cardinality(pending) <= 1
    /\ pc # "idle" => pending = {}
    /\ IsPrefix(calls, FrameOrder(impl))
    /\ pending # {} => calls = FrameOrder(impl)
    /\ pc # "idle" => calls # FrameOrder(impl)

\* reached: the frame started by the timer has finished and queued the next
C2_Witness ==
    /\ impl = "app"
    /\ pc = "idle"
    /\ pending = {2}
    /\ calls = FrameOrder("app")

\* the render modes in the order the source declares them
ModeOrder(i) ==
    IF i = "app"
    THEN <<MODE_POINT_CLOUD, MODE_WIREFRAME_FULL,
           MODE_WIREFRAME_BACK_FACE_CULLING, MODE_SOLID, MODE_SOLID_SHADED>>
    ELSE <<MODE_POINT_CLOUD, MODE_WIREFRAME_FULL,
           MODE_WIREFRAME_BACK_FACE_CULLING, MODE_SOLID>>

Modes(i) == {ModeOrder(i)[k] : k \in 1..Len(ModeOrder(i))}

\* the mode declared after m, the first one after the last
ModeAfter(i, m) ==
    LET k == CHOOSE j \in 1..Len(ModeOrder(i)) : ModeOrder(i)[j] = m
    IN  ModeOrder(i)[(k % Len(ModeOrder(i))) + 1]

RECURSIVE SelectModeTimes(_, _, _)
SelectModeTimes(i, n, m) ==
    IF n = 0 THEN m
    ELSE SelectModeTimes(i, n - 1, IF i = "app" THEN select_mode_app(m)
                                               ELSE select_mode_root(m))

\* C3: render_mode is always one of the declared modes, every change of it
\* goes to the mode declared next (the first after the last), and as many
\* select_mode calls as there are modes lead from point cloud back to it.
C3_ModeCycle ==
    /\ [](render_mode \in Modes(impl))
    /\ [][render_mode' # render_mode =>
            render_mode' = ModeAfter(impl, render_mode)]_vars
    /\ [](SelectModeTimes(impl, Len(ModeOrder(impl)), MODE_POINT_CLOUD)
            = MODE_POINT_CLOUD)

\* reached: src/app starts in solid shaded, so solid is reached only through
\* the wrap to point cloud and three more steps
C3_Witness ==
    /\ impl = "app"
    /\ render_mode = MODE_SOLID

\* C4: in an update() that finds both controls of an axis released, the
\* angular velocity of that axis is 0 when mesh.update runs, and the
\* orientation on that axis is the same after the frame's update as before.
C4_ReleasedMeansStill ==
    /\ []((pc = "render_background" /\ ~held("JOY_LEFT") /\ ~held("JOY_RIGHT"))
            => angular[2] = 0)
    /\ []((pc = "render_background" /\ ~held("JOY_UP") /\ ~held("JOY_DOWN"))
            => angular[1] = 0)
    /\ [][(pc = "update" /\ ~held("JOY_LEFT") /\ ~held("JOY_RIGHT"))
            => orientation'[2] = orientation[2]]_vars
    /\ [][(pc = "update" /\ ~held("JOY_UP") /\ ~held("JOY_DOWN"))
            => orientation'[1] = orientation[1]]_vars

\* reached: the mesh was turned about Y in an earlier frame, the controls
\* were let go, and the update of this frame has run
C4_Witness ==
    /\ pc = "render_background"
    /\ ~held("JOY_LEFT") /\ ~held("JOY_RIGHT")
    /\ orientation[2] # 0
    /\ angular[2] = 0

\* C5: in every frame whose update() finds rotate-left held and rotate-right
\* not held, the angular Y velocity mesh.update uses is the rotate-left
\* value (45 in src/app, 3 in src).
C5_HeldLeftRotatesLeft ==
    (pc = "render_background" /\ held("JOY_LEFT") /\ ~held("JOY_RIGHT"))
        => angular[2] = Speed


(***************************************************************************)
(* Properties of one render_scene pass.                                    *)
(***************************************************************************)
\* mesh faces that are in the face list
KeptFaces == {faces[k].face : k \in 1..Len(faces)}
\* mesh faces a draw call was made for
DrawnFaces == {draws[k].face : k \in 1..Len(draws)}
\* vertex indices of a face
IndexSet(ix) == {ix[k] : k \in 1..Len(ix)}

\* the modes that ask for back-face culling
CullingModes == {MODE_WIREFRAME_BACK_FACE_CULLING, MODE_SOLID, MODE_SOLID_SHADED}

\* C6: a face is left out of the face list if and only if its dot product is
\* negative and the mode is wireframe culled, solid or solid shaded; a face
\* left out causes no projection: the cache holds exactly the vertices of
\* the faces in the list.
C6_BackFaceCulling ==
    scene_pc # "build" =>
        /\ \A k \in 1..Len(world.faces) :
              (k \notin KeptFaces) <=>
                  (FaceDot(impl, world, world.faces[k]) < 0
                   /\ render_mode \in CullingModes)
        /\ \A v \in 1..Len(world.verts) :
              projected_verts[v].set <=>
                  \E k \in KeptFaces : v \in IndexSet(world.faces[k].indices)

\* reached: in wireframe-culled mode one face was culled, another kept, and a
\* vertex only the culled face uses was never projected; the same mesh face
\* would have been kept in wireframe-full mode
C6_Witness ==
    /\ scene_pc = "done"
    /\ render_mode = MODE_WIREFRAME_BACK_FACE_CULLING
    /\ world.cube = 0
    /\ KeptFaces = {1}
    /\ ~projected_verts[4].set
    /\ FaceDot(impl, world, world.faces[2]) < 0

\* C7: the draw calls of a pass are made in ascending order of the faces'
\* camera-space centroid depth, farthest first.
C7_PaintersOrder ==
    scene_pc = "done" =>
        \A a, b \in 1..Len(draws) :
            a < b => FaceDepth3(impl, world, world.faces[draws[a].face])
                       <= FaceDepth3(impl, world, world.faces[draws[b].face])

\* C7 for src/app alone, where the face list is sorted
C7_PaintersOrderApp == impl = "app" => C7_PaintersOrder

\* reached in src/app: three faces drawn, the mesh's first face last
C7_WitnessApp ==
    /\ impl = "app"
    /\ scene_pc = "done"
    /\ Len(draws) = 3
    /\ draws[3].face = 1
    /\ FaceDepth3(impl, world, world.faces[draws[1].face])
         < FaceDepth3(impl, world, world.faces[draws[3].face])

\* C8: a face of the face list gets a draw call if and only if one of its
\* projected vertices lies in [-1,1] x [-1,1], the bounds included.
C8_ViewportInclusive ==
    scene_pc = "done" =>
        \A k \in KeptFaces :
            (k \in DrawnFaces) <=>
                \E v \in IndexSet(world.faces[k].indices) :
                    InViewInclusive(projected_verts[v])

\* C8 with the bounds left out, as the code tests
C8_ViewportStrict ==
    scene_pc = "done" =>
        \A k \in KeptFaces :
            (k \in DrawnFaces) <=>
                \E v \in IndexSet(world.faces[k].indices) :
                    LET p == projected_verts[v]
                    IN  p.xn > -p.d /\ p.xn < p.d /\ p.yn > -p.d /\ p.yn < p.d

\* the draw call the mode asks for, mode by mode
ModeDraw(mode, w, f) ==
    LET rgb == w.colours[f.col_index]
        flat == color565(rgb[1], rgb[2], rgb[3])
        n == w.norms[f.norm_index]
        s == n[1] + n[2] + n[3]
        shaded == color565(Max(ScaleByLight(rgb[1], s), 8),
                           Max(ScaleByLight(rgb[2], s), 8),
                           Max(ScaleByLight(rgb[3], s), 8))
    IN  CASE mode = MODE_POINT_CLOUD -> [prim |-> "points", colour |-> WHITE]
          [] mode = MODE_WIREFRAME_FULL -> [prim |-> "polygon", colour |-> flat]
          [] mode = MODE_WIREFRAME_BACK_FACE_CULLING ->
                [prim |-> "polygon", colour |-> flat]
          [] mode = MODE_SOLID -> [prim |-> "filled polygon", colour |-> flat]
          [] mode = MODE_SOLID_SHADED ->
                [prim |-> "filled polygon", colour |-> shaded]

\* C9: every face of the list that passes the viewport test gets exactly one
\* draw call, no other face gets one, and the call's primitive and colour are
\* those of the render mode: white points, outline in the flat colour
\* (both wireframe modes), fill in the flat colour, fill in the colour scaled
\* by the light with every channel at least 8.
C9_ModeDispatch ==
    scene_pc = "done" =>
        /\ DrawnFaces = {k \in KeptFaces :
                            Visible(projected_verts, world.faces[k].indices)}
        /\ Len(draws) = Cardinality(DrawnFaces)
        /\ \A k \in 1..Len(draws) :
              LET want == ModeDraw(render_mode, world, world.faces[draws[k].face])
              IN  draws[k].prim = want.prim /\ draws[k].colour = want.colour

\* reached in src/app, solid shaded: one face lit, one facing away from the
\* light and drawn in the floor colour (8, 8, 8)
C9_Witness ==
    /\ impl = "app"
    /\ scene_pc = "done"
    /\ render_mode = MODE_SOLID_SHADED
    /\ \E a, b \in 1..Len(draws) :
          /\ draws[a].colour = color565(8, 8, 8)
          /\ draws[b].colour # color565(8, 8, 8)
          /\ draws[a].prim = "filled polygon"

\* sides of the cube (by normal index) with a triangle in the face list
KeptSides == {world.faces[k].norm_index : k \in KeptFaces}
AllSides == {world.faces[k].norm_index : k \in 1..Len(world.faces)}

\* C10 as claimed: of the 6 sides of a cube centred at the origin and not
\* rotated, the back-face test leaves out exactly 3 in a culling mode and
\* none in the other modes.
C10_ThreeOfSix ==
    (world.cube > 0 /\ scene_pc # "build") =>
        IF render_mode \in CullingModes
        THEN Cardinality(AllSides \ KeptSides) = 3
        ELSE KeptSides = AllSides /\ Cardinality(KeptSides) = 6

\* C10 as amended: in a culling mode only the front side (+z, 1) stays and, in
\* src/app with its camera 10 above the centre, the top side (+y, 5) while
\* the half edge is at most 10; the other 4 or 5 sides are left out, both
\* triangles of each.  With culling off all 6 sides stay.
C10_FrontAndTop ==
    (world.cube > 0 /\ scene_pc # "build") =>
        IF render_mode \in CullingModes
        THEN /\ KeptSides = {1} \cup
                    (IF impl = "app" /\ world.cube <= 10 THEN {5} ELSE {})
             /\ \A k \in 1..Len(world.faces) :
                    k \in KeptFaces <=> world.faces[k].norm_index \in KeptSides
        ELSE /\ KeptSides = AllSides
             /\ Cardinality(KeptSides) = 6
             /\ Len(faces) = Len(world.faces)

\* reached: src/app, solid mode, a cube of half edge 5: front and top stay
C10_Witness ==
    /\ impl = "app"
    /\ world.cube = 5
    /\ render_mode = MODE_SOLID
    /\ scene_pc = "done"
    /\ KeptSides = {1, 5}
    /\ Len(faces) = 4

(***************************************************************************)
(* Properties of the conversion to screen coordinates and of the           *)
(* projected-vertex cache.                                                 *)
(***************************************************************************)
\* the vertices handed to the framebuffer: draw call k, corner j
DrawnCorners == {<<k, j>> : k \in 1..Len(draws), j \in 1..3}
CornerNdc(c) == projected_verts[world.faces[draws[c[1]].face].indices[c[2]]]
CornerPixel(c) == draws[c[1]].coords[c[2]]

\* x and y in [-1, 1], and strictly between -1 and 1
NdcClosed(p) == p.xn >= -p.d /\ p.xn <= p.d /\ p.yn >= -p.d /\ p.yn <= p.d
NdcOpen(p) == p.xn > -p.d /\ p.xn < p.d /\ p.yn > -p.d /\ p.yn < p.d

\* the unrounded screen x and y of p less the pixel s, both times 2 * p.d:
\* (x + 1) * 0.5 * width - s[1] and (1 - (y + 1) * 0.5) * height - s[2].
\* Inverting the formula on the pixel, x = s[1] / (0.5 * width) - 1, and
\* converting again gives the pixel back, so this is the round trip's error
ErrX(p, s) == (p.xn + p.d) * FB_WIDTH - s[1] * 2 * p.d
ErrY(p, s) == (p.d - p.yn) * FB_HEIGHT - s[2] * 2 * p.d
Abs(n) == IF n >= 0 THEN n ELSE -n

OnScreen(s) == s[1] >= 0 /\ s[1] < FB_WIDTH /\ s[2] >= 0 /\ s[2] < FB_HEIGHT

\* C11 as claimed: for a point with x and y in [-1, 1] the pixel is within
\* half a pixel of the unrounded screen x and y, and for x and y strictly
\* between -1 and 1 the pixel is on the screen.
C11_RoundTripHalfPixel ==
    scene_pc = "done" =>
        \A c \in DrawnCorners :
            LET p == CornerNdc(c)
                s == CornerPixel(c)
            IN  /\ NdcClosed(p) =>
                      /\ 2 * Abs(ErrX(p, s)) <= 2 * p.d
                      /\ 2 * Abs(ErrY(p, s)) <= 2 * p.d
                /\ NdcOpen(p) => OnScreen(s)

\* C11 as amended: the pixel is the unrounded screen x and y with the
\* fraction dropped, so it lies at or below the unrounded value and less
\* than one pixel from it; for x and y strictly between -1 and 1 the pixel
\* is on the screen.
C11_RoundTripOnePixel ==
    scene_pc = "done" =>
        \A c \in DrawnCorners :
            LET p == CornerNdc(c)
                s == CornerPixel(c)
            IN  /\ NdcClosed(p) =>
                      /\ ErrX(p, s) >= 0 /\ ErrX(p, s) < 2 * p.d
                      /\ ErrY(p, s) >= 0 /\ ErrY(p, s) < 2 * p.d
                /\ NdcOpen(p) => OnScreen(s)

\* reached: a corner strictly inside the view, above and right of the
\* centre, drawn in the upper right of the screen more than half a pixel
\* below and left of its unrounded place
C11_Witness ==
    /\ scene_pc = "done"
    /\ \E c \in DrawnCorners :
          LET p == CornerNdc(c)
              s == CornerPixel(c)
          IN  /\ NdcOpen(p)
              /\ p.xn > 0 /\ p.yn > 0
              /\ 2 * s[1] > FB_WIDTH /\ 2 * s[2] < FB_HEIGHT
              /\ ErrX(p, s) > p.d
              /\ ErrY(p, s) > p.d

\* mesh faces the back-face test lets through in the mode of this pass
Surviving ==
    {k \in 1..Len(world.faces) :
        ~(FaceDot(impl, world, world.faces[k]) < 0
          /\ render_mode \in CullingModes)}
\* vertex indices the surviving faces share out between them
SurvivingVerts ==
    UNION {IndexSet(world.faces[k].indices) : k \in Surviving}

\* C12: once the first loop of a pass is over, whatever the passes before
\* it left behind: the cache has one slot per vertex of this pass's mesh;
\* every index of every face in the face list has its entry (the second loop
\* reads no unset entry); no index was projected twice and every entry comes
\* from one projection; an index is in the cache only if a surviving face
\* uses it; and every entry is the projection of this pass's vertex.
C12_CacheInvariant ==
    scene_pc \in {"sort", "draw", "done"} =>
        /\ Len(projected_verts) = Len(world.verts)
        /\ \A k \in 1..Len(faces) :
              \A v \in IndexSet(faces[k].indices) : projected_verts[v].set
        /\ \A a, b \in 1..Len(projections) :
              projections[a] = projections[b] => a = b
        /\ \A v \in 1..Len(world.verts) :
              /\ projected_verts[v].set <=>
                    \E a \in 1..Len(projections) : projections[a] = v
              /\ projected_verts[v].set <=> v \in SurvivingVerts
              /\ projected_verts[v].set =>
                    projected_verts[v] = Project(impl, world.verts[v])

\* reached: a later pass, in a culling mode, has drawn; two faces of its
\* list share a vertex; a vertex the pass before had projected is used only
\* by faces this pass left out and has no entry; another has an entry that
\* differs from the one the pass before left.
C12_Witness ==
    /\ scene_pc = "done"
    /\ render_mode \in CullingModes
    /\ Len(draws) > 0
    /\ \E a, b \in 1..Len(faces) :
          a # b /\ IndexSet(faces[a].indices) \cap IndexSet(faces[b].indices) # {}
    /\ \E v \in 1..Len(world.verts) :
          /\ v <= Len(prev_verts)
          /\ prev_verts[v].set
          /\ ~projected_verts[v].set
    /\ \E v \in 1..Len(world.verts) :
          /\ v <= Len(prev_verts)
          /\ prev_verts[v].set
          /\ projected_verts[v].set
          /\ projected_verts[v] # prev_verts[v]

=============================================================================
